---- MODULE Spec2Model ----
(***************************************************************************)
(* Generation-orchestration layer of the news pipeline:                    *)
(*   parse.py             serialize, write_json, read_json, write_data,    *)
(*                        read_data, load_or_create                        *)
(*   daily_highlights.py  iter_by_day, retry_by_day                        *)
(*   preanalysis.py       generate (tenacity retry around a ratelimit      *)
(*                        gate)                                            *)
(*   thematic_analysis.py reanalyze, refine_theme                          *)
(*   pipeline.py          the script that runs the stages                  *)
(* The module holds eleven specifications over one set of variables:       *)
(*   SpecCache      load_or_create on a small file system                  *)
(*   SpecRetry      one run of retry_by_day                                *)
(*   SpecRetryLive  the same run followed to its end, under fairness       *)
(*   SpecGen        one call of generate                                   *)
(*   SpecBackoff    the waits of one call of generate that keeps failing   *)
(*   SpecLimit      the rate-limit gate over time                          *)
(*   SpecShared     the calls of generate made by several callers          *)
(*   SpecRefine     one call of refine_theme                               *)
(*   SpecPipeline   one run of pipeline.py, a stage per step               *)
(*   SpecRefined    load_or_create of refine_theme                         *)
(*   SpecRoundTrip  load_or_create called again and again                  *)
(***************************************************************************)
EXTENDS Integers, Sequences, FiniteSets, TLC

VARIABLES
    fs,         \* the file system: path -> file content
    lc,         \* SpecCache: record of the last load_or_create call
    rpc,        \* SpecRetry: position inside retry_by_day
    tbl,        \* SpecRetry: the dataset, a sequence of rows
    response,   \* SpecRetry: the mapping held by retry_by_day / iter_by_day
    idx,        \* SpecRetry: position of the running for-loop
    calls,      \* SpecRetry: log of the invocations of FUN
    passes,     \* SpecRetry: number of passes of the while loop started
    seed,       \* SpecRetry: the mapping the retry loop started from
    rret,       \* SpecRetry: what retry_by_day returned / raised
    args,       \* SpecRetry: the model and schema retry_by_day was given
    hit,        \* SpecRetry: load_or_create found the cache file
    nwrites,    \* SpecRetry: writes of the cache path made by this run
    gpc,        \* SpecGen: position inside generate
    attempt,    \* SpecGen: tenacity's attempt_number
    now,        \* SpecGen/SpecLimit: the clock, in seconds
    last_reset, \* ratelimit: start of the current period
    num_calls,  \* ratelimit: attempts counted in the current period
    infers,     \* SpecGen: outcomes of the inference calls issued, in order
    waits,      \* SpecGen: the backoff waits slept, in order
    gret,       \* SpecGen: what generate returned / raised
    winStart,   \* SpecLimit: start of the observed 60 s window (-1: none)
    winCalls,   \* SpecLimit: inference calls issued inside the observed window
    rfpc,       \* SpecRefine: position inside refine_theme
    theme0,     \* SpecRefine: the mapping refine_theme was called with
    n0,         \* SpecRefine: the n refine_theme was called with
    rn,         \* SpecRefine: n of the running frame
    daily_theme,   \* SpecRefine: daily_theme of the running frame
    refined_theme, \* SpecRefine: refined_theme of the running frame
    frames,     \* SpecRefine: the n of every frame entered, in order
    rlog,       \* SpecRefine: log of the calls of reanalyze
    rfret,      \* SpecRefine: what refine_theme returned / raised
    origin,     \* SpecShared: the call of generate in progress, its attempt
    gstart,     \* SpecShared: start of the period observed
    gcalls,     \* SpecShared: inference calls issued in the period observed
    gstages,    \* SpecShared: the callers that issued them
    gretried,   \* SpecShared: one of them was a retry after a failure
    pstage,     \* SpecPipeline: the stage of pipeline.py to run next
    prun,       \* SpecPipeline: running, finished or aborted
    plog,       \* SpecPipeline: what every stage run so far did
    fs0         \* SpecPipeline: the file system the run started with

cacheVars == <<lc>>
retryVars ==
    <<rpc, tbl, response, idx, calls, passes, seed, rret, args, hit, nwrites>>
genVars   == <<gpc, attempt, infers, waits, gret>>
limitVars == <<now, last_reset, num_calls, winStart, winCalls>>
refineVars ==
    <<rfpc, theme0, n0, rn, daily_theme, refined_theme, frames, rlog, rfret>>
sharedVars == <<origin, gstart, gcalls, gstages, gretried>>
pipeVars == <<pstage, prun, plog, fs0>>
vars ==
    <<fs, cacheVars, retryVars, genVars, limitVars, refineVars, sharedVars,
      pipeVars>>

(***************************************************************************)
(* Python values.                                                          *)
(***************************************************************************)
Null == [kind |-> "none", id |-> 0]
Str(i) == [kind |-> "str", id |-> i]
\* a pydantic BaseModel instance; serialize turns it into the plain dict
Model(i) == [kind |-> "model", id |-> i]
Dict(i) == [kind |-> "dict", id |-> i]
\* an object json cannot encode (a set, a datetime, ...)
Obj(i) == [kind |-> "object", id |-> i]
\* a dict in insertion order: a sequence of <<key, value>> pairs
Map(items) == [kind |-> "map", items |-> items]
\* a pandas DataFrame: a sequence of rows
DF(rows) == [kind |-> "df", rows |-> rows]

IsDataFrame(obj) == obj.kind = "df"
IsMap(obj) == obj.kind = "map"


(***************************************************************************)
(* parse.py                                                                *)
(***************************************************************************)
RECURSIVE Serialize(_)
\* serialize: a model record becomes its plain dict (the same fields), a
\* dict is rebuilt with every value serialized, a list with every element
\* serialized, anything else is returned as it is
Serialize(obj) ==
    IF obj.kind = "model" THEN Serialize([obj EXCEPT !.kind = "dict"])
    ELSE IF obj.kind = "map"
         THEN Map([i \in 1..Len(obj.items) |->
                     <<obj.items[i][1], Serialize(obj.items[i][2])>>])
         ELSE IF obj.kind = "list"
              THEN [obj EXCEPT !.items =
                      [i \in 1..Len(obj.items) |-> Serialize(obj.items[i])]]
              ELSE obj

RECURSIVE JsonOk(_)
\* json.dump succeeds on None, str, plain dicts, and dicts and lists of
\* those; it raises TypeError on any other object
JsonOk(obj) ==
    IF obj.kind = "map"
    THEN \A i \in 1..Len(obj.items) : JsonOk(obj.items[i][2])
    ELSE IF obj.kind = "list"
         THEN \A i \in 1..Len(obj.items) : JsonOk(obj.items[i])
         ELSE obj.kind \in {"none", "str", "dict"}

\* paths are <<base, extension>>, as os.path.splitext sees them
Bases == {"theme"}
Exts == {".json", ".csv", ".txt"}
Paths == [base : Bases, ext : Exts]
Path(b, e) == [base |-> b, ext |-> e]
\* os.path.splitext(path)[0] + ".txt"
TxtPath(path) == [base |-> path.base, ext |-> ".txt"]

\* file contents
Absent == [fmt |-> "absent", val |-> Null]
JsonFile(v) == [fmt |-> "json", val |-> v]
CsvFile(v) == [fmt |-> "csv", val |-> v]
\* f.write(str(obj))
TextFile(v) == [fmt |-> "text", val |-> v]
\* what open(path, "w") followed by a json.dump that raised leaves behind:
\* a truncated file that is not JSON
Partial == [fmt |-> "partial", val |-> Null]

\* os.path.exists
Exists(f, path) == f[path].fmt # "absent"

\* write_json without its except clause: the TypeError of json.dump reaches
\* the caller
WriteJsonNoFallback(f, path, obj) ==
    LET s == Serialize(obj) IN
    IF JsonOk(s)
    THEN [fs |-> [f EXCEPT ![path] = JsonFile(s)],
          exc |-> "none", writes |-> <<path>>]
    ELSE [fs |-> [f EXCEPT ![path] = Partial],
          exc |-> "TypeError", writes |-> <<path>>]

\* write_json: serialize, dump to path; on TypeError / ValueError the text
\* form goes to the .txt sibling, after path was opened for writing
WriteJson(f, path, obj) ==
    LET s == Serialize(obj) IN
    IF JsonOk(s)
    THEN [fs |-> [f EXCEPT ![path] = JsonFile(s)],
          exc |-> "none", writes |-> <<path>>]
    ELSE LET f1 == [f EXCEPT ![path] = Partial] IN
         [fs |-> [f1 EXCEPT ![TxtPath(path)] = TextFile(s)],
          exc |-> "none", writes |-> <<path, TxtPath(path)>>]

\* a reader that hands back the keys of a mapping last key first
ReadJsonReversed(f, path) ==
    IF f[path].fmt = "json"
    THEN [val |-> IF f[path].val.kind = "map"
                  THEN [f[path].val EXCEPT !.items =
                           [i \in 1..Len(f[path].val.items) |->
                               f[path].val.items[
                                   Len(f[path].val.items) + 1 - i]]]
                  ELSE f[path].val,
          exc |-> "none"]
    ELSE [val |-> Null, exc |-> "JSONDecodeError"]

\* read_json: json.load; anything that is not JSON raises JSONDecodeError
ReadJson(f, path) ==
    IF f[path].fmt = "json"
    THEN [val |-> f[path].val, exc |-> "none"]
    ELSE [val |-> Null, exc |-> "JSONDecodeError"]

\* write_data: a DataFrame goes to to_csv(path, index=False, **kwargs), which
\* raises TypeError when kwargs repeats index; anything else to write_json
WriteData(f, obj, path, kwargs) ==
    IF IsDataFrame(obj)
    THEN IF "index" \in kwargs
         THEN [fs |-> f, exc |-> "TypeError", writes |-> <<>>]
         ELSE [fs |-> [f EXCEPT ![path] = CsvFile(obj)],
               exc |-> "none", writes |-> <<path>>]
    ELSE WriteJson(f, path, obj)

\* tbl[~tbl["url"].isnull() | ~tbl["content"].isnull()]: rows lacking both
\* url and content are dropped; on a non-table the KeyError / TypeError is
\* caught and the value is kept
CleanRows(v) ==
    IF IsDataFrame(v)
    THEN DF(SelectSeq(v.rows, LAMBDA r : r # "blank"))
    ELSE v

\* a reader that takes every extension other than .csv for JSON
ReadDataElseJson(f, path, garble) ==
    LET raw ==
          IF path.ext = ".csv"
          THEN IF f[path].fmt = "csv"
               THEN [val |-> f[path].val, exc |-> "none"]
               ELSE IF garble = "error"
                    THEN [val |-> Null, exc |-> "ParserError"]
                    ELSE [val |-> DF(<<"junk">>), exc |-> "none"]
          ELSE ReadJson(f, path)
    IN IF raw.exc = "none"
       THEN [val |-> CleanRows(raw.val), exc |-> "none"]
       ELSE raw

\* read_data: by extension; pd.read_csv of a file that holds no CSV either
\* raises or yields a junk table (garble says which)
ReadData(f, path, garble) ==
    LET raw ==
          IF path.ext = ".csv"
          THEN IF f[path].fmt = "csv"
               THEN [val |-> f[path].val, exc |-> "none"]
               ELSE IF garble = "error"
                    THEN [val |-> Null, exc |-> "ParserError"]
                    ELSE [val |-> DF(<<"junk">>), exc |-> "none"]
          ELSE IF path.ext = ".json"
               THEN ReadJson(f, path)
               ELSE [val |-> Null, exc |-> "ValueError"]
    IN IF raw.exc = "none"
       THEN [val |-> CleanRows(raw.val), exc |-> "none"]
       ELSE raw

\* what FUN does if it is invoked: return a value or raise
Ret(v) == [exc |-> "none", val |-> v]
Raise(e) == [exc |-> e, val |-> Null]

\* load_or_create without the os.path.exists test: FUN runs on every call
LoadOrCreateRecompute(f, out, path, garble) ==
    IF out.exc # "none"
    THEN [fs |-> f, val |-> Null, exc |-> out.exc, funCalls |-> 1,
          writes |-> <<>>]
    ELSE LET w == WriteData(f, out.val, path, {"index"}) IN
         [fs |-> w.fs, val |-> IF w.exc = "none" THEN out.val ELSE Null,
          exc |-> w.exc, funCalls |-> 1, writes |-> w.writes]

\* load_or_create(FUN, path, params); out is FUN's outcome if invoked
LoadOrCreate(f, out, path, garble) ==
    IF Exists(f, path)
    THEN LET r == ReadData(f, path, garble) IN
         [fs |-> f, val |-> r.val, exc |-> r.exc, funCalls |-> 0,
          writes |-> <<>>]
    ELSE IF out.exc # "none"
         THEN [fs |-> f, val |-> Null, exc |-> out.exc, funCalls |-> 1,
               writes |-> <<>>]
         ELSE LET w == WriteData(f, out.val, path, {"index"}) IN
              [fs |-> w.fs,
               val |-> IF w.exc = "none" THEN out.val ELSE Null,
               exc |-> w.exc, funCalls |-> 1, writes |-> w.writes]


(***************************************************************************)
(* Values of the groups of variables a specification does not use.         *)
(***************************************************************************)
NoRet == [done |-> FALSE, exc |-> "none", val |-> Null]
NoCall == [called |-> FALSE]

CacheIdle == lc = NoCall
RetryIdle ==
    /\ rpc = "off" /\ tbl = <<>> /\ response = <<>> /\ idx = 0
    /\ calls = <<>> /\ passes = 0 /\ seed = <<>> /\ rret = NoRet
    /\ args = [model |-> "", schema |-> ""] /\ hit = FALSE /\ nwrites = 0
GenIdle ==
    /\ gpc = "off" /\ attempt = 0 /\ infers = <<>> /\ waits = <<>>
    /\ gret = NoRet
LimitIdle ==
    /\ now = 0 /\ last_reset = 0 /\ num_calls = 0
    /\ winStart = -1 /\ winCalls = 0
RefineIdle ==
    /\ rfpc = "off" /\ theme0 = <<>> /\ n0 = 0 /\ rn = 0
    /\ daily_theme = <<>> /\ refined_theme = <<>> /\ frames = <<>>
    /\ rlog = <<>> /\ rfret = NoRet

NoOrigin == [stage |-> "", key |-> "", attempt |-> 0]
SharedIdle ==
    /\ origin = NoOrigin /\ gstart = 0 /\ gcalls = 0 /\ gstages = {}
    /\ gretried = FALSE

PipeIdle == pstage = 0 /\ prun = "off" /\ plog = <<>> /\ fs0 = <<>>

(***************************************************************************)
(* SpecCache: load_or_create called again and again on a small file        *)
(* system, with every outcome of FUN.                                      *)
(***************************************************************************)
\* files found on disk before the first call hold what their extension says
StoredJson ==
    {Str(1), Map(<< <<"2025-08-24", Null>>, <<"2025-08-25", Dict(1)>> >>)}
StoredTables == {DF(<<"full", "blank">>)}
InitialContent(path) ==
    {Absent} \cup
    (IF path.ext = ".json" THEN {JsonFile(v) : v \in StoredJson}
     ELSE IF path.ext = ".csv" THEN {CsvFile(d) : d \in StoredTables}
     ELSE {TextFile(Obj(1))})
InitialFs == {f \in [Paths -> UNION {InitialContent(p) : p \in Paths}] :
                \A p \in Paths : f[p] \in InitialContent(p)}

\* what FUN may do when load_or_create invokes it
FunValues ==
    {Null, Str(2), Model(1), Obj(2), DF(<<"full">>),
     Map(<< <<"2025-08-24", Model(1)>>, <<"2025-08-25", Null>> >>)}
FunOutcomes == {Ret(v) : v \in FunValues} \cup {Raise("FatalError")}
Garbles == {"error", "junk"}

InitCache ==
    /\ fs \in InitialFs
    /\ CacheIdle /\ RetryIdle /\ GenIdle /\ LimitIdle /\ RefineIdle /\ SharedIdle /\ PipeIdle

LoadOrCreateCall ==
    \E path \in Paths, out \in FunOutcomes, garble \in Garbles :
        LET r == LoadOrCreate(fs, out, path, garble) IN
        /\ fs' = r.fs
        /\ lc' = [called |-> TRUE, path |-> path, before |-> fs, out |-> out,
                  val |-> r.val, exc |-> r.exc, funCalls |-> r.funCalls,
                  writes |-> r.writes]
        /\ UNCHANGED <<retryVars, genVars, refineVars, sharedVars, pipeVars, limitVars>>

NextCache == LoadOrCreateCall
SpecCache == InitCache /\ [][NextCache]_vars

Hit == lc.called /\ Exists(lc.before, lc.path)
Miss == lc.called /\ ~Exists(lc.before, lc.path)
Stored == lc.before[lc.path]
\* the file holds what its extension announces
WellFormed ==
    \/ lc.path.ext = ".json" /\ Stored.fmt = "json"
    \/ lc.path.ext = ".csv" /\ Stored.fmt = "csv"


C3_MissPersistsOnce ==
    (/\ Miss /\ lc.out.exc = "none"
     /\ IsDataFrame(lc.out.val) \/ JsonOk(Serialize(lc.out.val)))
    => /\ lc.funCalls = 1
       /\ lc.exc = "none"
       /\ lc.val = lc.out.val
       /\ lc.writes = <<lc.path>>
       /\ fs[lc.path] = IF IsDataFrame(lc.out.val)
                        THEN CsvFile(lc.out.val)
                        ELSE JsonFile(Serialize(lc.out.val))

(***************************************************************************)
(* daily_highlights.py: iter_by_day and retry_by_day.                      *)
(***************************************************************************)
\* bounds of the runs explored
MaxRows == 3
MaxPasses == 2

\* pubDateTime after pd.to_datetime(errors="coerce"): a day of August 2025
\* with a time of day, or NaT for a value that could not be parsed
NaT == [day |-> 0, hm |-> 0]
Stamps == {[day |-> 24, hm |-> 1000], [day |-> 24, hm |-> 2359],
           [day |-> 25, hm |-> 1], NaT}
DaySeq == <<24, 25>>
\* strftime("%Y-%m-%d")
DateStr(d) == IF d = 24 THEN "2025-08-24" ELSE "2025-08-25"
\* a dataset: row i has rownum i and the timestamp t[i]
Datasets == UNION {[1..n -> Stamps] : n \in 0..MaxRows}

\* a partition for every day of the range, with or without rows
GroupDaysAll(t) == DaySeq

\* the groups taken latest day first
GroupDaysDescending(t) ==
    LET up == SelectSeq(DaySeq, LAMBDA d :
                  \E i \in 1..Len(t) : t[i] # NaT /\ t[i].day = d)
    IN [i \in 1..Len(up) |-> up[Len(up) + 1 - i]]

\* tbl.groupby(tbl["pubDateTime"].dt.date): the dates present, ascending;
\* rows whose date is NaT belong to no group
GroupDays(t) ==
    SelectSeq(DaySeq, LAMBDA d : \E i \in 1..Len(t) : t[i] # NaT /\ t[i].day = d)
\* grouping with the rows that have no date put into the first day
GroupRowsWithNaT(t, d) ==
    SelectSeq([i \in 1..Len(t) |-> i],
              LAMBDA i : \/ t[i] # NaT /\ t[i].day = d
                         \/ t[i] = NaT /\ d = DaySeq[1])

\* the rownums of a group, in row order
GroupRows(t, d) ==
    SelectSeq([i \in 1..Len(t) |-> i], LAMBDA i : t[i] # NaT /\ t[i].day = d)
\* tbl[tbl["pubDateTime"].dt.strftime("%Y-%m-%d") == key]
RowsOn(t, key) ==
    SelectSeq([i \in 1..Len(t) |-> i],
              LAMBDA i : t[i] # NaT /\ DateStr(t[i].day) = key)

\* retry_by_day's path (pipeline.py: data/processed/daily_theme.json)
CachePath == Path("theme", ".json")

\* the callers of retry_by_day
ArgSets == {[model |-> "gemini-2.0-flash", schema |-> "str"],
            [model |-> "gemini-2.5-flash", schema |-> "list[Theme]"]}

\* what FUN (highlight_news / analyze_news, i.e. generate) may do; the value
\* produced in pass p is tagged p + 1
GenOutcomes(p) ==
    {Ret(Null), Ret(Str(p + 1)), Ret(Model(p + 1)), Ret(Obj(p + 1)),
     Raise("FatalError")}

\* any(...) that looks at the first value only
AnyNullFirst(resp) == Len(resp) > 0 /\ resp[1][2] = Null

\* any(v is None for v in response.values())
AnyNull(resp) == \E i \in 1..Len(resp) : resp[i][2] = Null

\* the loop body without its "if value is None" test
NextEntry(resp, from) == IF from <= Len(resp) THEN from ELSE 0

\* for key, value in response.items(): if value is None -- the position of
\* the next entry at or after from whose value is None, 0 if there is none
NextNull(resp, from) ==
    IF \E i \in from..Len(resp) : resp[i][2] = Null
    THEN CHOOSE i \in from..Len(resp) :
            /\ resp[i][2] = Null
            /\ \A j \in from..(i - 1) : resp[j][2] # Null
    ELSE 0

\* the last statement left out
FinalWriteSkipped(f, resp) == [fs |-> f, exc |-> "none", writes |-> <<>>]

\* the last statement writing str(response) to the path
FinalWriteAsText(f, resp) ==
    [fs |-> [f EXCEPT ![CachePath] = TextFile(Map(resp))], exc |-> "none",
     writes |-> <<CachePath>>]

\* write_data(response, path), the last statement of retry_by_day
FinalWrite(f, resp) == WriteData(f, Map(resp), CachePath, {})

\* the loop with write_data moved inside it: every finished pass is persisted
RetryFromEager(f, resp, from, p, w) ==
    LET j == IF from = 0 THEN 0 ELSE NextNull(resp, from) IN
    IF j # 0
    THEN [rpc |-> "retry", idx |-> j, passes |-> p, fs |-> f, nwrites |-> w]
    ELSE IF AnyNull(resp)
         THEN [rpc |-> "retry", idx |-> NextNull(resp, 1), passes |-> p + 1,
               fs |-> FinalWrite(f, resp).fs, nwrites |-> w + 1]
         ELSE [rpc |-> "done", idx |-> 0, passes |-> p,
               fs |-> FinalWrite(f, resp).fs, nwrites |-> w + 1]

\* the loop that gives up once a pass has left a null behind
RetryFromCapped(f, resp, from, p, w) ==
    LET j == IF from = 0 THEN 0 ELSE NextNull(resp, from) IN
    IF j # 0
    THEN [rpc |-> "retry", idx |-> j, passes |-> p, fs |-> f, nwrites |-> w]
    ELSE IF AnyNull(resp)
         THEN IF p >= 1
              THEN [rpc |-> "raised", idx |-> 0, passes |-> p, fs |-> f,
                    nwrites |-> w]
              ELSE [rpc |-> "retry", idx |-> NextNull(resp, 1),
                    passes |-> p + 1, fs |-> f, nwrites |-> w]
         ELSE [rpc |-> "done", idx |-> 0, passes |-> p,
               fs |-> FinalWrite(f, resp).fs, nwrites |-> w + 1]

\* the while loop of retry_by_day up to its next call of FUN: resp is the
\* mapping, from the position the for loop goes on from (0: the while test
\* is evaluated first), p the passes started, w the writes made so far
RetryFrom(f, resp, from, p, w) ==
    LET j == IF from = 0 THEN 0 ELSE NextNull(resp, from) IN
    IF j # 0
    THEN [rpc |-> "retry", idx |-> j, passes |-> p, fs |-> f, nwrites |-> w]
    ELSE IF AnyNull(resp)
         THEN [rpc |-> "retry", idx |-> NextNull(resp, 1), passes |-> p + 1,
               fs |-> f, nwrites |-> w]
         ELSE [rpc |-> "done", idx |-> 0, passes |-> p,
               fs |-> FinalWrite(f, resp).fs, nwrites |-> w + 1]

\* mappings an earlier run may have left at the cache path
SeedMaps ==
    {<< <<"2025-08-24", Null>>, <<"2025-08-25", Str(1)>> >>,
     << <<"2025-08-24", Dict(1)>>, <<"2025-08-25", Str(1)>> >>,
     << <<"2025-08-25", Null>>, <<"2025-08-24", Null>> >>}
SeedFiles ==
    {Absent, Partial, JsonFile(Str(1))} \cup {JsonFile(Map(m)) : m \in SeedMaps}

InitRetry ==
    /\ tbl \in Datasets
    /\ args \in ArgSets
    /\ fs \in {f \in [Paths -> SeedFiles] :
                 /\ f[Path("theme", ".csv")] = Absent
                 /\ f[Path("theme", ".txt")] = Absent}
    /\ rpc = "start" /\ response = <<>> /\ idx = 0 /\ calls = <<>>
    /\ passes = 0 /\ seed = <<>> /\ rret = NoRet /\ hit = FALSE
    /\ nwrites = 0
    /\ CacheIdle /\ GenIdle /\ LimitIdle /\ RefineIdle /\ SharedIdle /\ PipeIdle

\* one invocation of FUN, as the log keeps it
Invocation(phase, key, rows, held, out) ==
    [phase |-> phase, key |-> key, rows |-> rows, model |-> args.model,
     schema |-> args.schema, held |-> held, out |-> out]

\* retry_by_day ends by an exception
Raised(e) ==
    /\ rpc' = "raised"
    /\ rret' = [done |-> TRUE, exc |-> e, val |-> Null]

\* the retry loop runs from position from of mapping resp
Loop(f, resp, from, w) ==
    LET n == RetryFrom(f, resp, from, passes, w) IN
    /\ rpc' = n.rpc /\ idx' = n.idx /\ passes' = n.passes /\ fs' = n.fs
    /\ nwrites' = n.nwrites
    /\ response' = resp
    /\ rret' = IF n.rpc = "done"
               THEN [done |-> TRUE, exc |-> "none", val |-> Map(resp)]
               ELSE rret

\* load_or_create(iter_by_day, path, ...) on an existing file, followed by
\* the loop up to its first call of FUN
RetryLoad ==
    /\ rpc = "start" /\ Exists(fs, CachePath)
    /\ hit' = TRUE
    /\ LET r == ReadData(fs, CachePath, "error") IN
       IF r.exc # "none"
       THEN Raised(r.exc) /\ UNCHANGED <<fs, response, idx, passes, seed, nwrites>>
       ELSE IF ~IsMap(r.val)
            \* response.values() on something that is no dict
            THEN Raised("AttributeError")
                 /\ UNCHANGED <<fs, response, idx, passes, seed, nwrites>>
            ELSE seed' = r.val.items /\ Loop(fs, r.val.items, 0, 0)
    /\ UNCHANGED <<tbl, args, calls, cacheVars, genVars, refineVars, sharedVars, pipeVars, limitVars>>

\* the end of load_or_create on a miss: write_data(df, path, index=False),
\* then the loop up to its first call of FUN
Created(resp) ==
    LET w == WriteData(fs, Map(resp), CachePath, {"index"}) IN
    seed' = resp /\ Loop(w.fs, resp, 0, 1)

\* load_or_create on a miss: iter_by_day starts; a dataset without a group
\* is done at once
RetryCreate ==
    /\ rpc = "start" /\ ~Exists(fs, CachePath)
    /\ hit' = FALSE
    /\ IF GroupDays(tbl) = <<>>
       THEN Created(<<>>)
       ELSE /\ rpc' = "iter" /\ idx' = 1 /\ response' = <<>>
            /\ UNCHANGED <<fs, passes, seed, rret, nwrites>>
    /\ UNCHANGED <<tbl, args, calls, cacheVars, genVars, refineVars, sharedVars, pipeVars, limitVars>>

\* the results gathered before the exception written to the path
FunRaisedSavesPartial(f, resp) == WriteData(f, Map(resp), CachePath, {"index"}).fs

\* FUN raised inside iter_by_day: the exception leaves iter_by_day and
\* load_or_create, whose write_data is not reached; results_by_date is lost
FunRaised(f, resp) == f

\* iter_by_day: FUN on the next group, ascending by date
IterStep ==
    /\ rpc = "iter"
    /\ \E out \in GenOutcomes(0) :
         LET d == GroupDays(tbl)[idx]
             resp == Append(response, <<DateStr(d), out.val>>)
         IN /\ calls' = Append(calls, Invocation("iter", DateStr(d),
                                                 GroupRows(tbl, d), Null, out))
            /\ IF out.exc # "none"
               THEN Raised(out.exc)
                    /\ fs' = FunRaised(fs, response)
                    /\ UNCHANGED <<response, idx, passes, seed, nwrites>>
               ELSE IF idx < Len(GroupDays(tbl))
                    THEN /\ response' = resp /\ idx' = idx + 1
                         /\ UNCHANGED <<fs, rpc, passes, seed, rret, nwrites>>
                    ELSE Created(resp)
    /\ UNCHANGED <<tbl, args, hit, cacheVars, genVars, refineVars, sharedVars, pipeVars, limitVars>>

\* the retry loop: FUN on the rows of the entry at idx, then on to the next
\* call of FUN or to the end of retry_by_day
RetryStep ==
    /\ rpc = "retry" /\ passes <= MaxPasses
    /\ \E out \in GenOutcomes(passes) :
         LET key == response[idx][1]
             resp == [response EXCEPT ![idx] = <<key, out.val>>]
         IN /\ calls' = Append(calls, Invocation("retry", key, RowsOn(tbl, key),
                                                 response[idx][2], out))
            /\ IF out.exc # "none"
               THEN Raised(out.exc)
                    /\ UNCHANGED <<fs, response, idx, passes, nwrites>>
               ELSE Loop(fs, resp, idx + 1, nwrites)
    /\ UNCHANGED <<tbl, args, hit, seed, cacheVars, genVars, refineVars, sharedVars, pipeVars, limitVars>>

NextRetry == RetryLoad \/ RetryCreate \/ IterStep \/ RetryStep
SpecRetry == InitRetry /\ [][NextRetry]_vars


(***************************************************************************)
(* preanalysis.py: generate =                                              *)
(*   tenacity.retry(sleep_and_retry(limits(calls=150, period=60)(f)))      *)
(***************************************************************************)
CALLS == 150
PERIOD == 60
WaitMultiplier == 1
WaitMin == 4
WaitMax == 60
\* bounds of the runs explored
MaxAttempts == 3
MaxTime == 120
IdleGap == 59

Min(a, b) == IF a <= b THEN a ELSE b
Max(a, b) == IF a >= b THEN a ELSE b

\* ratelimit.limits: one attempt to pass the gate at time t.  The period is
\* anchored at last_reset: once it has elapsed the counter starts again from
\* this attempt; the attempt is counted, and refused when the count exceeds
\* the calls allowed (RateLimitException carrying period_remaining)
Limits(lr, nc, t) ==
    LET remaining == PERIOD - (t - lr)
        elapsed == remaining <= 0
        count == (IF elapsed THEN 0 ELSE nc) + 1
    IN [last_reset |-> IF elapsed THEN t ELSE lr,
        num_calls |-> count,
        admitted |-> count <= CALLS,
        period_remaining |-> remaining]

\* a backoff that always waits the minimum
WaitFixed(n) == WaitMin

\* tenacity.wait_exponential(multiplier=1, min=4, max=60) after the failure
\* of attempt n: max(max(0, min), min(multiplier * 2 ** (n - 1), max))
WaitExponential(n) ==
    Max(Max(0, WaitMin), Min(WaitMultiplier * 2 ^ (n - 1), WaitMax))

\* what an inference call that was issued may do: raise one of these, or
\* answer with a body that parses into the schema or with one that does not
ErrorKinds ==
    {"ConnectError", "ReadTimeout", "OSError", "ServerError", "ClientError",
     "ValueError"}
InferOutcomes == ErrorKinds \cup {"conforming", "nonconforming"}

\* isinstance: google.genai.errors.ServerError (5xx) and ClientError (4xx,
\* the answer to a malformed request) are both APIError
IsInstance(e, cls) ==
    \/ e = cls
    \/ cls = "APIError" /\ e \in {"ServerError", "ClientError"}

\* retry_if_exception_type(Exception)
RetryableAny(e) == e \in ErrorKinds

\* retry_if_exception_type without APIError
RetryableNetworkOnly(e) ==
    \E cls \in {"ConnectError", "ReadTimeout", "OSError"} : IsInstance(e, cls)

\* retry_if_exception_type((ConnectError, ReadTimeout, OSError, APIError))
Retryable(e) ==
    \E cls \in {"ConnectError", "ReadTimeout", "OSError", "APIError"} :
        IsInstance(e, cls)

\* the text of the response handed back as it came
ParsedRaw(o) == Str(1)

\* result = response.parsed: the parsed value, None when the body did not
\* parse into the schema
Parsed(o) == IF o = "conforming" THEN Str(1) ELSE Null

\* the gate is process-wide: a call of generate finds it in any state
\* earlier calls left it in
InitGen ==
    /\ gpc = "calling" /\ attempt = 1 /\ infers = <<>> /\ waits = <<>>
    /\ gret = NoRet
    /\ last_reset = 0
    /\ now \in {0, PERIOD - 1}
    /\ num_calls \in {0, CALLS - 1, CALLS}
    /\ winStart = -1 /\ winCalls = 0
    /\ fs = [p \in Paths |-> Absent]
    /\ CacheIdle /\ RetryIdle /\ RefineIdle /\ SharedIdle /\ PipeIdle

\* sleep_and_retry: the gate refused, sleep until the period is over
GenLimited ==
    /\ gpc = "calling"
    /\ LET g == Limits(last_reset, num_calls, now) IN
       /\ ~g.admitted
       /\ last_reset' = g.last_reset /\ num_calls' = g.num_calls
       /\ now' = now + g.period_remaining
    /\ UNCHANGED <<fs, cacheVars, retryVars, genVars, refineVars, sharedVars, pipeVars, winStart, winCalls>>

\* the gate admitted: the inference call is issued; its result is returned,
\* a retryable exception is followed by the backoff sleep and the next
\* attempt, any other exception reaches the caller
GenIssue ==
    /\ gpc = "calling"
    /\ LET g == Limits(last_reset, num_calls, now) IN
       /\ g.admitted
       /\ last_reset' = g.last_reset /\ num_calls' = g.num_calls
       /\ \E o \in InferOutcomes :
            /\ infers' = Append(infers, o)
            /\ IF o \notin ErrorKinds
               THEN /\ gpc' = "returned"
                    /\ gret' = [done |-> TRUE, exc |-> "none", val |-> Parsed(o)]
                    /\ UNCHANGED <<attempt, waits, now>>
               ELSE IF Retryable(o)
                    THEN /\ attempt < MaxAttempts
                         /\ waits' = Append(waits, WaitExponential(attempt))
                         /\ now' = now + WaitExponential(attempt)
                         /\ attempt' = attempt + 1
                         /\ UNCHANGED <<gpc, gret>>
                    ELSE /\ gpc' = "raised"
                         /\ gret' = [done |-> TRUE, exc |-> o, val |-> Null]
                         /\ UNCHANGED <<attempt, waits, now>>
    /\ UNCHANGED <<fs, cacheVars, retryVars, refineVars, sharedVars, pipeVars, winStart, winCalls>>

NextGen == GenLimited \/ GenIssue
SpecGen == InitGen /\ [][NextGen]_vars

(***************************************************************************)
(* SpecBackoff: one call of generate whose inference calls keep failing    *)
(* with transient errors; tenacity sleeps wait_exponential after each      *)
(* failure and has no stop condition (stop_never).                         *)
(***************************************************************************)
\* bound of the failures followed
MaxFailures == 8

\* the transient failures followed
BackoffErrors == {"ConnectError", "ServerError"}

InitBackoff ==
    /\ gpc = "calling" /\ attempt = 1 /\ infers = <<>> /\ waits = <<>>
    /\ gret = NoRet
    /\ LimitIdle
    /\ fs = [p \in Paths |-> Absent]
    /\ CacheIdle /\ RetryIdle /\ RefineIdle /\ SharedIdle /\ PipeIdle

\* one attempt: the gate, the inference call, and on a retryable failure
\* the sleep before the next attempt
BackoffAttempt ==
    /\ gpc = "calling"
    /\ LET g == Limits(last_reset, num_calls, now) IN
       /\ g.admitted
       /\ last_reset' = g.last_reset /\ num_calls' = g.num_calls
       /\ \E o \in BackoffErrors \cup {"conforming"} :
            /\ infers' = Append(infers, o)
            /\ IF Retryable(o)
               THEN /\ attempt <= MaxFailures
                    /\ waits' = Append(waits, WaitExponential(attempt))
                    /\ now' = now + WaitExponential(attempt)
                    /\ attempt' = attempt + 1
                    /\ UNCHANGED <<gpc, gret>>
               ELSE /\ gpc' = "returned"
                    /\ gret' = [done |-> TRUE, exc |-> "none", val |-> Parsed(o)]
                    /\ UNCHANGED <<attempt, waits, now>>
    /\ UNCHANGED <<fs, cacheVars, retryVars, refineVars, sharedVars, pipeVars, winStart,
                   winCalls>>

NextBackoff == BackoffAttempt
SpecBackoff == InitBackoff /\ [][NextBackoff]_vars

(***************************************************************************)
(* SpecLimit: the gate alone, under any sequence of attempts of generate   *)
(* with pauses between them.  An observer picks one window of PERIOD       *)
(* seconds, starting at an inference call, and counts the inference calls  *)
(* issued inside it.                                                       *)
(***************************************************************************)
InitLimit ==
    /\ LimitIdle
    /\ fs = [p \in Paths |-> Absent]
    /\ CacheIdle /\ RetryIdle /\ GenIdle /\ RefineIdle /\ SharedIdle /\ PipeIdle

\* one attempt of generate at the gate: admitted (the inference call is
\* issued) or refused (sleep_and_retry sleeps period_remaining)
LimitAttempt ==
    /\ LET g == Limits(last_reset, num_calls, now) IN
       /\ last_reset' = g.last_reset /\ num_calls' = g.num_calls
       /\ IF g.admitted
          THEN /\ now' = now
               /\ winStart' \in IF winStart = -1 THEN {-1, now} ELSE {winStart}
               /\ winCalls' = IF winStart' # -1 /\ now < winStart' + PERIOD
                              THEN Min(winCalls + 1, CALLS + 1)
                              ELSE winCalls
          ELSE /\ now + g.period_remaining <= MaxTime
               /\ now' = now + g.period_remaining
               /\ UNCHANGED <<winStart, winCalls>>
    /\ UNCHANGED <<fs, cacheVars, retryVars, genVars, refineVars, sharedVars, pipeVars>>

\* time passes between two attempts
Pause ==
    /\ now + IdleGap <= MaxTime
    /\ now' = now + IdleGap
    /\ UNCHANGED <<fs, cacheVars, retryVars, genVars, refineVars, sharedVars, pipeVars, last_reset, num_calls,
                   winStart, winCalls>>

NextLimit == LimitAttempt \/ Pause
SpecLimit == InitLimit /\ [][NextLimit]_vars

(***************************************************************************)
(* SpecRetryLive: retry_by_day run to its end.  The generation function    *)
(* never raises and may answer null any number of times, but not for ever: *)
(* a retry that is answered with a value eventually happens.  The loop has *)
(* no counter of its own; the pass counter of the model stops counting     *)
(* above MaxPasses and the invocation log is kept for iter_by_day only.    *)
(***************************************************************************)
\* FUN under the assumption: it returns, a value or null
LiveOutcomes(p) == {o \in GenOutcomes(p) : o.exc = "none"}

\* iter_by_day with a FUN that returns
IterLive == IterStep /\ rpc' # "raised"

\* one retry of the loop, with a FUN that returns
RetryLive ==
    /\ rpc = "retry"
    /\ \E out \in LiveOutcomes(Min(passes, MaxPasses)) :
         LET key == response[idx][1]
             resp == [response EXCEPT ![idx] = <<key, out.val>>]
             n == RetryFrom(fs, resp, idx + 1, passes, nwrites)
         IN /\ response' = resp
            /\ rpc' = n.rpc /\ idx' = n.idx /\ fs' = n.fs
            /\ nwrites' = n.nwrites
            /\ passes' = Min(n.passes, MaxPasses + 1)
            /\ rret' = IF n.rpc = "done"
                       THEN [done |-> TRUE, exc |-> "none", val |-> Map(resp)]
                       ELSE rret
    /\ UNCHANGED <<tbl, args, hit, seed, calls, cacheVars, genVars, refineVars, sharedVars, pipeVars, limitVars>>

\* a retry that FUN answers with a value
RetrySucceeds == RetryLive /\ response'[idx][2] # Null

\* bound of the datasets of the runs followed to their end
MaxLiveRows == 2
InitRetryLive == InitRetry /\ Len(tbl) <= MaxLiveRows

NextRetryLive == RetryLoad \/ RetryCreate \/ IterLive \/ RetryLive
SpecRetryLive ==
    /\ InitRetryLive /\ [][NextRetryLive]_vars
    /\ WF_vars(NextRetryLive) /\ WF_vars(RetrySucceeds)

(***************************************************************************)
(* thematic_analysis.py: refine_theme.  SpecRefine is one call of          *)
(* refine_theme(daily_theme, schema, n); every step is one call of         *)
(* reanalyze, whose answer is null, a list of Theme entries or an          *)
(* exception.                                                              *)
(***************************************************************************)
\* bounds of the runs explored
MaxN == 2
MaxNullAnswers == 2

\* a list[Theme]: entries carrying rownum and kw
List(items) == [kind |-> "list", items |-> items]
\* a Theme record as response.parsed holds it
Theme(r, k) == [kind |-> "model", id |-> 0, rownum |-> r, kw |-> k]
\* the rownum of every entry, in order
Rownums(v) == [i \in 1..Len(v.items) |-> v.items[i].rownum]

\* the mappings refine_theme is called with (the result of assign_theme)
ThemeMaps ==
    LET a == List(<<Theme(1, "FUEL PRICE"), Theme(2, "WAGE CUT")>>)
        b == List(<<Theme(3, "RALLY")>>)
        c == List(<<Theme(3, "WAGE CUT"), Theme(4, "RALLY")>>)
    IN {<<>>,
        << <<"2025-08-24", a>> >>,
        << <<"2025-08-24", a>>, <<"2025-08-25", b>> >>,
        << <<"2025-08-24", a>>, <<"2025-08-25", c>> >>}

\* answers of the model to reanalyze(v): every entry relabelled with one
\* generalized keyword, or the list with its last entry left out
Keywords == {"COST OF LIVING", "STREET PROTEST"}
Relabel(v, k) ==
    List([i \in 1..Len(v.items) |-> Theme(v.items[i].rownum, k)])
DropLast(v) == List(SubSeq(v.items, 1, Len(v.items) - 1))
ReduceAnswers(v) == {Relabel(v, k) : k \in Keywords} \cup {DropLast(v)}
\* what reanalyze (generate) may do on v
ReanalyzeOutcomes(v) ==
    {Ret(Null), Raise("FatalError")} \cup {Ret(a) : a \in ReduceAnswers(v)}

\* the value of the first partition handed over, whatever the key
ReduceInputFirst(dt, i) == dt[1][2]

\* for k, v in daily_theme.items(): the v of the i-th entry
ReduceInput(dt, i) == dt[i][2]

\* a while loop that takes any result
ResultIsNoneNever(result) == FALSE

\* while result is None
ResultIsNone(result) == result = Null

\* the result stored without its last entry
StoreResultSliced(rt, k, result) == Append(rt, <<k, DropLast(result)>>)

\* refined_theme[k] = result
StoreResult(rt, k, result) == Append(rt, <<k, result>>)

\* "if n <= 0" read as "if n < 0": one pass more
BaseCaseLate(n) == n < 0

\* if n <= 0: return daily_theme
BaseCase(n) == n <= 0

RECURSIVE RefineTheme(_, _, _)
RECURSIVE PassFrom(_, _, _, _)
\* refine_theme(dt, schema, n) up to its next call of reanalyze or to its
\* return; fr lists the n of the frames entered before
RefineTheme(dt, n, fr) ==
    IF BaseCase(n)
    THEN [rfpc |-> "done", rn |-> n, daily_theme |-> dt,
          refined_theme |-> <<>>, frames |-> Append(fr, n)]
    ELSE PassFrom(dt, <<>>, n, Append(fr, n))

\* the recursion entered as soon as the first entry is refined, the other
\* entries carried over as they were
PassFromPartial(dt, rt, n, fr) ==
    IF Len(rt) = 0 /\ Len(dt) > 0
    THEN [rfpc |-> "pass", rn |-> n, daily_theme |-> dt,
          refined_theme |-> rt, frames |-> fr]
    ELSE RefineTheme(rt \o SubSeq(dt, Len(rt) + 1, Len(dt)), n - 1, fr)

\* the for loop of frame n with rt built so far: on to the next entry, or
\* return refine_theme(refined_theme, schema, n - 1)
PassFrom(dt, rt, n, fr) ==
    IF Len(rt) < Len(dt)
    THEN [rfpc |-> "pass", rn |-> n, daily_theme |-> dt,
          refined_theme |-> rt, frames |-> fr]
    ELSE RefineTheme(rt, n - 1, fr)

InitRefine ==
    /\ theme0 \in ThemeMaps
    /\ n0 \in -1..MaxN
    /\ rfpc = "call" /\ rn = n0 /\ daily_theme = theme0
    /\ refined_theme = <<>> /\ frames = <<>> /\ rlog = <<>> /\ rfret = NoRet
    /\ fs = [p \in Paths |-> Absent]
    /\ CacheIdle /\ RetryIdle /\ GenIdle /\ LimitIdle /\ SharedIdle /\ PipeIdle

\* the state after refine_theme went on to position r
RefineGoes(r) ==
    /\ rfpc' = r.rfpc /\ rn' = r.rn /\ daily_theme' = r.daily_theme
    /\ refined_theme' = r.refined_theme /\ frames' = r.frames
    /\ rfret' = IF r.rfpc = "done"
                THEN [done |-> TRUE, exc |-> "none", val |-> Map(r.daily_theme)]
                ELSE rfret

\* refine_theme is entered
RefineCall ==
    /\ rfpc = "call"
    /\ RefineGoes(RefineTheme(theme0, n0, <<>>))
    /\ UNCHANGED <<fs, theme0, n0, rlog, cacheVars, retryVars, genVars,
                   limitVars, sharedVars, pipeVars>>

NullAnswers == {i \in 1..Len(rlog) : rlog[i].out = Ret(Null)}

\* result = reanalyze(v, model = model, schema = schema) for the entry the
\* for loop is at: null keeps the while loop on the same entry, a value is
\* stored and the loop goes on, an exception ends refine_theme
Reanalyze ==
    /\ rfpc = "pass"
    /\ LET i == Len(refined_theme) + 1
           k == daily_theme[i][1]
           v == ReduceInput(daily_theme, i)
       IN \E out \in ReanalyzeOutcomes(v) :
            /\ out = Ret(Null) => Cardinality(NullAnswers) < MaxNullAnswers
            /\ rlog' = Append(rlog, [n |-> rn, key |-> k, input |-> v,
                                     out |-> out])
            /\ IF out.exc # "none"
               THEN /\ rfpc' = "raised"
                    /\ rfret' = [done |-> TRUE, exc |-> out.exc, val |-> Null]
                    /\ UNCHANGED <<rn, daily_theme, refined_theme, frames>>
               ELSE IF ResultIsNone(out.val)
                    THEN UNCHANGED <<rfpc, rn, daily_theme, refined_theme,
                                     frames, rfret>>
                    ELSE RefineGoes(PassFrom(daily_theme,
                                             StoreResult(refined_theme, k,
                                                         out.val),
                                             rn, frames))

\* the same inside a call of refine_theme that writes nothing
ReanalyzeStep ==
    /\ Reanalyze
    /\ UNCHANGED <<fs, theme0, n0, cacheVars, retryVars, genVars, limitVars,
                   sharedVars, pipeVars>>

NextRefine == RefineCall \/ ReanalyzeStep
SpecRefine == InitRefine /\ [][NextRefine]_vars

(***************************************************************************)
(* SpecShared: the calls of generate the stages of the pipeline make, one  *)
(* after another (the program has one thread), each with its attempts.  An *)
(* observer counts the inference calls issued per period, whoever issued   *)
(* them: its period starts with the first attempt made once the period     *)
(* before has elapsed.                                                     *)
(***************************************************************************)
\* the callers of generate and the partitions they call it for
Stages == {"highlight_news", "reanalyze"}
PartitionKeys == {"2025-08-24", "2025-08-25"}

\* the decorators stacked the other way round: tenacity retries inside the
\* gate, only the first attempt of a call passes it
ThroughGateOnce(att, lr, nc, t) ==
    IF att > 1
    THEN [last_reset |-> lr, num_calls |-> nc, admitted |-> TRUE,
          period_remaining |-> PERIOD - (t - lr)]
    ELSE Limits(lr, nc, t)

\* generate = retry(sleep_and_retry(limits(f))): every attempt tenacity
\* makes, the first and the later ones, calls the gated function; generate
\* is one function object, imported by every caller, so there is one gate
ThroughGate(att, lr, nc, t) == Limits(lr, nc, t)

InitShared ==
    /\ SharedIdle /\ LimitIdle /\ PipeIdle
    /\ fs = [p \in Paths |-> Absent]
    /\ CacheIdle /\ RetryIdle /\ GenIdle /\ RefineIdle

\* attempt att of the call of generate by stage st for partition key k
SharedAttempt(st, k, att) ==
    LET g == ThroughGate(att, last_reset, num_calls, now)
        fresh == now - gstart >= PERIOD
        base == IF fresh THEN 0 ELSE gcalls
    IN /\ last_reset' = g.last_reset /\ num_calls' = g.num_calls
       /\ gstart' = IF fresh THEN now ELSE gstart
       /\ IF ~g.admitted
          THEN \* sleep_and_retry sleeps and calls again
               /\ now + g.period_remaining <= MaxTime
               /\ now' = now + g.period_remaining
               /\ origin' = [stage |-> st, key |-> k, attempt |-> att]
               /\ gcalls' = base
               /\ gstages' = IF fresh THEN {} ELSE gstages
               /\ gretried' = IF fresh THEN FALSE ELSE gretried
          ELSE \* the inference call is issued
               /\ gcalls' = Min(base + 1, CALLS + 1)
               /\ gstages' = (IF fresh THEN {} ELSE gstages) \cup {st}
               /\ gretried' = ((~fresh /\ gretried) \/ att > 1)
               /\ \/ /\ origin' = NoOrigin
                     /\ now' = now
                  \/ \* a transient failure: backoff, then the next attempt
                     /\ att < MaxAttempts
                     /\ now + WaitExponential(att) <= MaxTime
                     /\ now' = now + WaitExponential(att)
                     /\ origin' = [stage |-> st, key |-> k, attempt |-> att + 1]
       /\ UNCHANGED <<fs, cacheVars, retryVars, genVars, refineVars, pipeVars,
                      winStart, winCalls>>

\* a caller calls generate
SharedCall ==
    /\ origin = NoOrigin
    /\ \E st \in Stages, k \in PartitionKeys : SharedAttempt(st, k, 1)

\* the call in progress goes on: after the sleep of the gate, or after the
\* backoff of tenacity
SharedRetry ==
    /\ origin # NoOrigin
    /\ SharedAttempt(origin.stage, origin.key, origin.attempt)

NextShared == SharedCall \/ SharedRetry
SpecShared == InitShared /\ [][NextShared]_vars

(***************************************************************************)
(* SpecPipeline: one run of pipeline.py, a script whose stages are         *)
(* top-level statements: an exception leaving a stage ends the process.    *)
(* Every step is one stage, with its calls of generate, its reads and its  *)
(* writes.                                                                 *)
(***************************************************************************)
\* the stages that keep an artifact, in the order of the script
StageSeq ==
    << [base |-> "keywords", ext |-> ".json", by |-> "load_or_create"],
       [base |-> "preanalysis", ext |-> ".csv", by |-> "load_or_create"],
       [base |-> "daily_highlight", ext |-> ".json", by |-> "retry_by_day"],
       [base |-> "daily_theme", ext |-> ".json", by |-> "retry_by_day"],
       [base |-> "daily_theme_refined", ext |-> ".json",
        by |-> "load_or_create"],
       [base |-> "daily_topic", ext |-> ".json", by |-> "load_or_create"] >>
StagePath(k) == Path(StageSeq[k].base, StageSeq[k].ext)
PipelinePaths == [base : {StageSeq[k].base : k \in 1..Len(StageSeq)}, ext : Exts]

\* what the inference calls of a stage do, in order; generate ends at the
\* first outcome that is not a retryable error
InferSeqs ==
    {<<"conforming">>, <<"ConnectError", "conforming">>,
     <<"ServerError", "ReadTimeout", "conforming">>,
     <<"ValueError">>, <<"OSError", "ValueError">>}

\* generate over the outcomes os, v being what a conforming answer parses to
Generate(os, v) ==
    LET stop == CHOOSE i \in 1..Len(os) :
                    /\ ~(os[i] \in ErrorKinds /\ Retryable(os[i]))
                    /\ \A j \in 1..(i - 1) :
                         os[j] \in ErrorKinds /\ Retryable(os[j])
    IN IF os[stop] \in ErrorKinds THEN Raise(os[stop]) ELSE Ret(v)

\* what the stage computes when its generation succeeds: a value json can
\* encode (a table for clean_news, a mapping by day for the stages by day),
\* or one it cannot
StageValue(k, encodable) ==
    IF StageSeq[k].ext = ".csv" THEN DF(<<"full">>)
    ELSE IF StageSeq[k].by = "retry_by_day"
         THEN Map(<< <<"2025-08-24", IF encodable THEN Str(k) ELSE Obj(k)>>,
                     <<"2025-08-25", IF encodable THEN Str(k) ELSE Obj(k)>> >>)
         ELSE IF encodable THEN Str(k) ELSE Obj(k)

\* the outcome of the stage's FUN; partial: the first day's answer did not
\* conform and is None
StageOutcome(k, os, encodable, partial) ==
    LET v == StageValue(k, encodable) IN
    IF Generate(os, Str(1)).exc # "none"
    THEN Generate(os, Str(1))
    ELSE IF partial /\ IsMap(v)
         THEN Ret(Map([v.items EXCEPT ![1] = <<v.items[1][1], Null>>]))
         ELSE Ret(v)

\* the artifact an earlier run may have left for stage k
StageFiles(k) ==
    {Absent} \cup
    (IF StageSeq[k].ext = ".csv"
     THEN {CsvFile(DF(<<"full">>))}
     ELSE {Partial, JsonFile(StageValue(k, TRUE))} \cup
          (IF StageSeq[k].by = "retry_by_day"
           THEN {JsonFile(Map(<< <<"2025-08-24", Null>>,
                                 <<"2025-08-25", Str(k)>> >>))}
           ELSE {}))

InitPipeline ==
    /\ \E a1 \in StageFiles(1), a2 \in StageFiles(2), a3 \in StageFiles(3),
          a4 \in StageFiles(4), a5 \in StageFiles(5), a6 \in StageFiles(6) :
         fs = [p \in PipelinePaths |->
                 IF \E k \in 1..Len(StageSeq) : p = StagePath(k)
                 THEN <<a1, a2, a3, a4, a5, a6>>[
                          CHOOSE k \in 1..Len(StageSeq) : p = StagePath(k)]
                 ELSE Absent]
    /\ fs0 = fs
    /\ pstage = 1 /\ prun = "running" /\ plog = <<>>
    /\ CacheIdle /\ RetryIdle /\ GenIdle /\ LimitIdle /\ RefineIdle
    /\ SharedIdle

\* every null of the mapping replaced by v
Filled(items, v) ==
    [i \in 1..Len(items) |->
        IF items[i][2] = Null THEN <<items[i][1], v>> ELSE items[i]]

\* retry_by_day(FUN, tbl, path, ...) as one step: load_or_create of
\* iter_by_day (first is what iter_by_day does if invoked), the while loop
\* (lout the outcome of its calls of generate) and the final write_data
RetryByDay(f, path, first, lout) ==
    LET r == LoadOrCreate(f, first, path, "error")
        q == r @@ [looped |-> FALSE]
    IN IF r.exc # "none" THEN q
       ELSE IF ~IsMap(r.val)
            THEN [q EXCEPT !.exc = "AttributeError", !.val = Null]
            ELSE IF AnyNull(r.val.items)
                 THEN IF lout.exc # "none"
                      THEN [q EXCEPT !.exc = lout.exc, !.val = Null,
                                     !.looped = TRUE]
                      ELSE LET m == Map(Filled(r.val.items, lout.val))
                               w == WriteData(r.fs, m, path, {})
                           IN [q EXCEPT !.fs = w.fs, !.val = m,
                                        !.looped = TRUE,
                                        !.writes = r.writes \o w.writes]
                 ELSE LET w == WriteData(r.fs, r.val, path, {})
                      IN [q EXCEPT !.fs = w.fs, !.writes = r.writes \o w.writes]

\* the stages run on after an exception, as if each were wrapped in
\* try / except
AfterStageKeepGoing(k, exc) ==
    IF k = Len(StageSeq)
    THEN [pstage |-> k + 1, prun |-> "finished"]
    ELSE [pstage |-> k + 1, prun |-> "running"]

\* the script after stage k: an exception ends the process, otherwise the
\* next statement runs
AfterStage(k, exc) ==
    IF exc # "none"
    THEN [pstage |-> k, prun |-> "aborted"]
    ELSE IF k = Len(StageSeq)
         THEN [pstage |-> k + 1, prun |-> "finished"]
         ELSE [pstage |-> k + 1, prun |-> "running"]

\* stage pstage did r; os are the outcomes of the inference calls it made
StageDid(r, os) ==
    LET n == AfterStage(pstage, r.exc) IN
    /\ fs' = r.fs
    /\ pstage' = n.pstage /\ prun' = n.prun
    /\ plog' = Append(plog,
                      [stage |-> pstage, hit |-> Exists(fs, StagePath(pstage)),
                       infers |-> os,
                       fallback |-> \E i \in 1..Len(r.writes) :
                                      r.writes[i] = TxtPath(StagePath(pstage)),
                       exc |-> r.exc])
    /\ UNCHANGED <<fs0, cacheVars, retryVars, genVars, limitVars, refineVars,
                   sharedVars>>

\* a stage of the form load_or_create(FUN, path, params)
CreateStage ==
    /\ prun = "running" /\ StageSeq[pstage].by = "load_or_create"
    /\ \E os \in InferSeqs, encodable \in BOOLEAN :
         LET r == LoadOrCreate(fs, StageOutcome(pstage, os, encodable, FALSE),
                               StagePath(pstage), "error")
         IN StageDid(r, IF r.funCalls = 0 THEN <<>> ELSE os)

\* assign_highlight / assign_theme: retry_by_day
ByDayStage ==
    /\ prun = "running" /\ StageSeq[pstage].by = "retry_by_day"
    /\ \E os \in InferSeqs, los \in InferSeqs, encodable \in BOOLEAN,
          partial \in BOOLEAN :
         LET r == RetryByDay(fs, StagePath(pstage),
                             StageOutcome(pstage, os, encodable, partial),
                             Generate(los, IF encodable THEN Str(pstage)
                                           ELSE Obj(pstage)))
         IN StageDid(r, (IF r.funCalls = 0 THEN <<>> ELSE os)
                        \o (IF r.looped THEN los ELSE <<>>))

NextPipeline == CreateStage \/ ByDayStage
SpecPipeline == InitPipeline /\ [][NextPipeline]_vars

(***************************************************************************)
(* SpecRefined: the statement of pipeline.py that keeps the refined        *)
(* themes, load_or_create(refine_theme, "daily_theme_refined.json", ...).  *)
(* The step in which refine_theme returns is also the step of write_data.  *)
(***************************************************************************)
RefinedPath == Path("daily_theme_refined", ".json")

\* what an earlier run may have left at the path
RefinedFiles ==
    {Absent,
     JsonFile(Serialize(Map(<< <<"2025-08-24",
                                 List(<<Theme(1, "COST OF LIVING")>>)>> >>)))}

InitRefined ==
    /\ theme0 \in ThemeMaps
    /\ n0 \in -1..MaxN
    /\ rfpc = "call" /\ rn = n0 /\ daily_theme = theme0
    /\ refined_theme = <<>> /\ frames = <<>> /\ rlog = <<>> /\ rfret = NoRet
    /\ \E a \in RefinedFiles :
         fs = [p \in PipelinePaths |-> IF p = RefinedPath THEN a ELSE Absent]
    /\ fs0 = fs /\ pstage = 0 /\ prun = "off" /\ plog = <<>>
    /\ CacheIdle /\ RetryIdle /\ GenIdle /\ LimitIdle /\ SharedIdle

\* a write after every call of reanalyze, of the mapping built so far
PersistEveryCall(f) ==
    IF rfpc' = "done"
    THEN WriteData(f, rfret'.val, RefinedPath, {"index"}).fs
    ELSE IF rfpc' = "pass"
         THEN WriteData(f, Map(refined_theme'), RefinedPath, {"index"}).fs
         ELSE f

\* load_or_create after FUN: write_data(df, path, index=False) once
\* refine_theme has returned, nothing before and nothing if it raised
Persist(f) ==
    IF rfpc' = "done"
    THEN WriteData(f, rfret'.val, RefinedPath, {"index"}).fs
    ELSE f

\* the file exists: read_data, refine_theme is not called
RefinedLoad ==
    /\ rfpc = "call" /\ Exists(fs, RefinedPath)
    /\ LET r == ReadData(fs, RefinedPath, "error") IN
       /\ rfpc' = IF r.exc = "none" THEN "loaded" ELSE "raised"
       /\ rfret' = [done |-> TRUE, exc |-> r.exc, val |-> r.val]
    /\ UNCHANGED <<fs, rn, daily_theme, refined_theme, frames, rlog, theme0,
                   n0, cacheVars, retryVars, genVars, limitVars, sharedVars,
                   pipeVars>>

\* the file does not exist: refine_theme is entered
RefinedCreate ==
    /\ rfpc = "call" /\ ~Exists(fs, RefinedPath)
    /\ RefineGoes(RefineTheme(theme0, n0, <<>>))
    /\ fs' = Persist(fs)
    /\ UNCHANGED <<theme0, n0, rlog, cacheVars, retryVars, genVars,
                   limitVars, sharedVars, pipeVars>>

\* one call of reanalyze inside it
RefinedStep ==
    /\ Reanalyze
    /\ fs' = Persist(fs)
    /\ UNCHANGED <<theme0, n0, cacheVars, retryVars, genVars, limitVars,
                   sharedVars, pipeVars>>

NextRefined == RefinedLoad \/ RefinedCreate \/ RefinedStep
SpecRefined == InitRefined /\ [][NextRefined]_vars

(***************************************************************************)
(* SpecRoundTrip: calls of load_or_create one after the other, the record  *)
(* of a call keeping the record of the call before it.                     *)
(***************************************************************************)
\* what FUN may return: text, a model record, mappings and lists of them
\* (keys not in sorted order), an object json cannot encode, a table
RoundTripValues ==
    {Str(2), Model(1), Obj(2), DF(<<"full">>),
     List(<<Theme(1, "RALLY"), Str(1)>>),
     Map(<< <<"2025-08-25", Model(1)>>,
            <<"2025-08-24", List(<<Theme(2, "WAGE CUT")>>)>> >>),
     Map(<< <<"2025-08-24", Obj(1)>> >>)}
RoundTripOutcomes == {Ret(v) : v \in RoundTripValues} \cup {Raise("FatalError")}

\* the record of a call without the record it keeps
Alone(l) == [k \in DOMAIN l \ {"prev"} |-> l[k]]

InitRoundTrip ==
    /\ fs \in InitialFs
    /\ CacheIdle /\ RetryIdle /\ GenIdle /\ LimitIdle /\ RefineIdle
    /\ SharedIdle /\ PipeIdle

RoundTripCall ==
    \E path \in Paths, out \in RoundTripOutcomes :
        LET r == LoadOrCreate(fs, out, path, "error") IN
        /\ fs' = r.fs
        /\ lc' = [called |-> TRUE, path |-> path, before |-> fs, out |-> out,
                  val |-> r.val, exc |-> r.exc, funCalls |-> r.funCalls,
                  writes |-> r.writes, prev |-> Alone(lc)]
        /\ UNCHANGED <<retryVars, genVars, limitVars, refineVars, sharedVars,
                       pipeVars>>

NextRoundTrip == RoundTripCall
SpecRoundTrip == InitRoundTrip /\ [][NextRoundTrip]_vars

Keys(items) == [i \in 1..Len(items) |-> items[i][1]]
\* the entries of a mapping as json stores them: model records as plain dicts
Plain(v) == IF v.kind = "model" THEN Dict(v.id) ELSE v
AsStored(items) == [i \in 1..Len(items) |-> <<items[i][1], Plain(items[i][2])>>]
Artifact == fs[CachePath]
ArtifactHasNull ==
    /\ Artifact.fmt = "json" /\ IsMap(Artifact.val)
    /\ \E i \in 1..Len(Artifact.val.items) : Artifact.val.items[i][2] = Null
RetryCalls == {k \in 1..Len(calls) : calls[k].phase = "retry"}

(***************************************************************************)
(* C1: whenever retry_by_day returns, the returned mapping holds a         *)
(* non-null value for every partition key: the keys of the mapping the     *)
(* loop started from, which on a cache miss are the dates of the dataset.  *)
(***************************************************************************)
C1_PartitionComplete ==
    rpc = "done" =>
        /\ rret.exc = "none"
        /\ \A i \in 1..Len(rret.val.items) : rret.val.items[i][2] # Null
        /\ Keys(rret.val.items) = Keys(seed)
        /\ ~hit => Keys(rret.val.items) =
                     [i \in 1..Len(GroupDays(tbl)) |-> DateStr(GroupDays(tbl)[i])]

\* a run that returned after FUN had answered null in the retry loop
C1_Witness ==
    /\ rpc = "done" /\ Len(rret.val.items) = 2
    /\ \E k \in RetryCalls : calls[k].out.val = Null

(***************************************************************************)
(* C8, as stated: in every reachable state of a run, the artifact stored   *)
(* at the cache path by the run contains no partition whose value is null. *)
(* Refuted: on a cache miss load_or_create persists the mapping of         *)
(* iter_by_day before the retry loop, nulls included.                      *)
(***************************************************************************)
C8_NeverNullPersisted == nwrites > 0 => ~ArtifactHasNull

(***************************************************************************)
(* C8, amended: once retry_by_day has returned, the artifact at the cache  *)
(* path contains no null partition, and the write retry_by_day makes       *)
(* itself happens only once no null remains; the only artifact with a null *)
(* a run ever writes is the snapshot load_or_create persists on a cache    *)
(* miss, before the retry loop.                                            *)
(***************************************************************************)
C8_NullOnlyInSnapshot ==
    /\ rpc = "done" => ~ArtifactHasNull
    /\ (nwrites > 0 /\ ArtifactHasNull) =>
           /\ ~hit /\ nwrites = 1 /\ rpc # "done"
           /\ Artifact.val.items = AsStored(seed)

\* the snapshot with a null is on disk while the loop retries
C8_Witness == nwrites = 1 /\ ArtifactHasNull /\ rpc = "retry" /\ passes = 2

(***************************************************************************)
(* C9, as stated: when retry_by_day returns, the artifact at the cache     *)
(* path equals the returned mapping.  Refuted: model records are stored as *)
(* plain dicts, and a mapping json cannot encode is not stored at the      *)
(* cache path at all.                                                      *)
(***************************************************************************)
C9_ArtifactEqualsReturned == rpc = "done" => Artifact = JsonFile(rret.val)

(***************************************************************************)
(* C9, amended: when retry_by_day returns a mapping json can encode, the   *)
(* artifact at the cache path is the serialized form of the returned       *)
(* mapping (same keys in the same order, model records as plain dicts),    *)
(* having overwritten any earlier snapshot that still contained nulls;     *)
(* when json cannot encode it, the cache path is left truncated and the    *)
(* text form is at the .txt path.                                          *)
(***************************************************************************)
C9_ArtifactIsSerialized ==
    rpc = "done" =>
        LET items == rret.val.items IN
        IF \A i \in 1..Len(items) : items[i][2].kind # "object"
        THEN Artifact = JsonFile(Map(AsStored(items)))
        ELSE /\ Artifact = Partial
             /\ fs[TxtPath(CachePath)] = TextFile(Map(AsStored(items)))

\* a cached snapshot with a null was overwritten by a mapping holding a
\* model record
C9_Witness ==
    /\ rpc = "done" /\ hit /\ AnyNull(seed) /\ Artifact.fmt = "json"
    /\ \E i \in 1..Len(rret.val.items) : rret.val.items[i][2].kind = "model"

(***************************************************************************)
(* C10: in the retry loop FUN is re-invoked only for partitions whose      *)
(* value is null, on that partition's rows and with the model and schema   *)
(* retry_by_day was given; a partition holding a non-null value is never   *)
(* re-invoked and its value never changes; if FUN always succeeds the loop *)
(* converges after exactly one pass.                                       *)
(***************************************************************************)
C10_SelectiveRetry ==
    /\ \A k \in RetryCalls :
         /\ calls[k].held = Null
         /\ \E i \in 1..Len(seed) : seed[i] = <<calls[k].key, Null>>
         /\ \A r \in 1..Len(tbl) :
              (\E n \in 1..Len(calls[k].rows) : calls[k].rows[n] = r)
              <=> (tbl[r] # NaT /\ DateStr(tbl[r].day) = calls[k].key)
         /\ calls[k].model = args.model /\ calls[k].schema = args.schema
    /\ rpc \in {"retry", "done"} =>
         /\ Len(response) = Len(seed)
         /\ \A i \in 1..Len(seed) : seed[i][2] # Null => response[i] = seed[i]
    /\ (/\ rpc = "done" /\ AnyNull(seed)
        /\ \A k \in RetryCalls : calls[k].out.val # Null)
       => /\ passes = 1
          /\ Cardinality(RetryCalls) =
               Cardinality({i \in 1..Len(seed) : seed[i][2] = Null})

\* the scenario of the specification: one null, one value, one pass
C10_Witness ==
    /\ rpc = "done" /\ hit /\ passes = 1
    /\ seed = << <<"2025-08-24", Null>>, <<"2025-08-25", Str(1)>> >>
    /\ response = << <<"2025-08-24", Str(2)>>, <<"2025-08-25", Str(1)>> >>
    /\ Len(tbl) = 2 /\ Len(calls) = 1 /\ Len(calls[1].rows) = 1


(***************************************************************************)
(* C11: the retry loop of retry_by_day has no attempt cap: as long as the  *)
(* generation function returns and, for every partition, eventually        *)
(* returns a non-null value, a run that has started generating eventually  *)
(* reaches Done, having written the mapping; and it is Done only when      *)
(* every partition is non-null.                                            *)
(***************************************************************************)
C11_EventuallyDone ==
    /\ [](rpc = "done" =>
            /\ ~AnyNull(response) /\ nwrites >= 1
            /\ rret = [done |-> TRUE, exc |-> "none", val |-> Map(response)])
    /\ [](rpc = "retry" => AnyNull(response))
    /\ (rpc \in {"iter", "retry"}) ~> (rpc = "done")

\* Done after the loop went through more passes than MaxPasses
C11_Witness ==
    /\ rpc = "done" /\ passes = MaxPasses + 1 /\ Len(response) = 2 /\ ~hit


(***************************************************************************)
(* Claims about refine_theme (SpecRefine).                                 *)
(***************************************************************************)
\* the calls of reanalyze that were answered with a value
Answered == {i \in 1..Len(rlog) : rlog[i].out.exc = "none" /\ rlog[i].out.val # Null}
\* the reduction answered the same input in the same way every time
Deterministic ==
    \A i, j \in Answered :
        rlog[i].input = rlog[j].input => rlog[i].out = rlog[j].out
\* the answer the reduction gave to v (null if it never answered v)
ReduceOf(v) ==
    IF \E i \in Answered : rlog[i].input = v
    THEN rlog[CHOOSE i \in Answered : rlog[i].input = v].out.val
    ELSE Null
RECURSIVE IterReduce(_, _)
IterReduce(v, k) == IF k <= 0 THEN v ELSE IterReduce(ReduceOf(v), k - 1)
\* the reduction relabelled: every answer kept the rownums of its input
Relabels ==
    \A i \in Answered : Rownums(rlog[i].out.val) = Rownums(rlog[i].input)

(***************************************************************************)
(* C12: refine_theme called with n = 0 returns the mapping it was given,   *)
(* unchanged, and calls reanalyze not once.                                *)
(***************************************************************************)
C12_BaseCase ==
    (n0 = 0 /\ rfpc \notin {"off", "call"}) =>
        /\ rfpc = "done"
        /\ rfret = [done |-> TRUE, exc |-> "none", val |-> Map(theme0)]
        /\ rlog = <<>>
        /\ frames = <<0>>

\* n = 0 on a mapping of two partitions
C12_Witness == n0 = 0 /\ rfpc = "done" /\ Len(theme0) = 2

(***************************************************************************)
(* C13: refine_theme called with n >= 0 performs exactly n full passes:    *)
(* the frames entered carry n, n - 1, ..., 0, so the counter goes down by  *)
(* one per pass and is 0 once; in every pass each partition is answered    *)
(* exactly once with a value; and a pass reads only what the pass before   *)
(* it gave each partition, after that pass gave every partition its value  *)
(* (the first pass reads the mapping of the call).                         *)
(***************************************************************************)
C13_FixedPassCount ==
    (n0 >= 0 /\ rfpc \in {"pass", "done", "raised"}) =>
        /\ \A i \in 1..Len(frames) : frames[i] = n0 - (i - 1)
        /\ rn = frames[Len(frames)]
        /\ rfpc = "done" =>
             /\ Len(frames) = n0 + 1 /\ rn = 0
             /\ \A m \in 1..n0 : \A p \in 1..Len(theme0) :
                  Cardinality({i \in Answered : /\ rlog[i].n = m
                                                /\ rlog[i].key = theme0[p][1]})
                  = 1
        /\ \A i \in 1..Len(rlog) :
             /\ rlog[i].n = n0 =>
                  \E p \in 1..Len(theme0) :
                      theme0[p] = <<rlog[i].key, rlog[i].input>>
             /\ rlog[i].n < n0 =>
                  /\ \A p \in 1..Len(theme0) :
                       \E j \in 1..(i - 1) :
                           /\ j \in Answered /\ rlog[j].n = rlog[i].n + 1
                           /\ rlog[j].key = theme0[p][1]
                  /\ \E j \in 1..(i - 1) :
                       /\ rlog[j].n = rlog[i].n + 1
                       /\ rlog[j].key = rlog[i].key
                       /\ rlog[j].out = Ret(rlog[i].input)

\* MaxN passes over two partitions, one of them answered null once
C13_Witness ==
    /\ rfpc = "done" /\ n0 = MaxN /\ Len(theme0) = 2
    /\ Len(rlog) = 2 * MaxN + 1

(***************************************************************************)
(* C14: in a pass of refine_theme a null answer for a partition is         *)
(* followed by another call of reanalyze for the same partition on the     *)
(* same input, however many nulls came before; the mapping every pass      *)
(* produces has the keys of the input mapping, in order, and no null.      *)
(***************************************************************************)
C14_RetryUntilSuccess ==
    /\ \A i \in 1..Len(rlog) :
         rlog[i].out = Ret(Null) =>
             IF i < Len(rlog)
             THEN /\ rlog[i + 1].n = rlog[i].n
                  /\ rlog[i + 1].key = rlog[i].key
                  /\ rlog[i + 1].input = rlog[i].input
             ELSE /\ rfpc = "pass" /\ rn = rlog[i].n
                  /\ daily_theme[Len(refined_theme) + 1] =
                         <<rlog[i].key, rlog[i].input>>
    /\ rfpc \in {"pass", "done"} =>
         /\ Keys(daily_theme) = Keys(theme0)
         /\ rn < n0 => \A p \in 1..Len(daily_theme) : daily_theme[p][2] # Null
         /\ Keys(refined_theme) = SubSeq(Keys(theme0), 1, Len(refined_theme))
         /\ \A p \in 1..Len(refined_theme) : refined_theme[p][2] # Null

\* a partition answered null MaxNullAnswers times in a row, then refined
C14_Witness ==
    /\ rfpc = "done" /\ n0 >= 1 /\ Len(theme0) = 2
    /\ \E i \in 1..Len(rlog) :
         /\ i + MaxNullAnswers <= Len(rlog)
         /\ \A d \in 0..(MaxNullAnswers - 1) : rlog[i + d].out = Ret(Null)
         /\ rlog[i + MaxNullAnswers].key = "2025-08-25"

(***************************************************************************)
(* C15: for a deterministic reduction, the final value refine_theme gives  *)
(* a partition is the reduction applied n times to that partition's        *)
(* initial value: it depends on nothing else, so two runs that agree on a  *)
(* partition's initial value and on n agree on its final value whatever    *)
(* the other partitions hold.                                              *)
(***************************************************************************)
C15_NoCrossPartition ==
    (rfpc = "done" /\ Deterministic) =>
        /\ Len(rfret.val.items) = Len(theme0)
        /\ \A p \in 1..Len(theme0) :
             rfret.val.items[p] =
                 <<theme0[p][1], IterReduce(theme0[p][2], n0)>>

\* two partitions refined MaxN times to different values
C15_Witness ==
    /\ rfpc = "done" /\ Deterministic /\ n0 = MaxN /\ Len(theme0) = 2
    /\ rfret.val.items[1][2] # rfret.val.items[2][2]
    /\ rfret.val.items[2][2] # theme0[2][2]

(***************************************************************************)
(* C16: for a reduction that relabels entries but never drops or           *)
(* duplicates one, refine_theme(state, n) returns, for every n >= 0 and    *)
(* every partition, the row identifiers the partition held in the initial  *)
(* state, each exactly once; so does the mapping of every pass.            *)
(***************************************************************************)
C16_RowIdsPreserved ==
    (Relabels /\ rfpc \in {"pass", "done"}) =>
        /\ \A p \in 1..Len(daily_theme) :
             Rownums(daily_theme[p][2]) = Rownums(theme0[p][2])
        /\ \A p \in 1..Len(refined_theme) :
             Rownums(refined_theme[p][2]) = Rownums(theme0[p][2])
        /\ rfpc = "done" =>
             \A p \in 1..Len(theme0) :
                 /\ Rownums(rfret.val.items[p][2]) = Rownums(theme0[p][2])
                 /\ \A a, b \in 1..Len(rfret.val.items[p][2].items) :
                      a # b => rfret.val.items[p][2].items[a].rownum #
                               rfret.val.items[p][2].items[b].rownum

\* MaxN relabelling passes over two partitions
C16_Witness ==
    /\ rfpc = "done" /\ Relabels /\ n0 = MaxN /\ Len(theme0) = 2
    /\ \A p \in 1..2 : rfret.val.items[p][2] # theme0[p][2]


(***************************************************************************)
(* Claims about the grouping of iter_by_day (SpecRetry, on a cache miss).  *)
(***************************************************************************)
IterCalls == {k \in 1..Len(calls) : calls[k].phase = "iter"}
\* iter_by_day ran over all its groups and returned
IterDone == ~hit /\ rpc \in {"retry", "done"}
InRows(r, k) == \E n \in 1..Len(calls[k].rows) : calls[k].rows[n] = r
\* the rownums of the rows whose timestamp was parsed, in row order
ParsedRows == SelectSeq([i \in 1..Len(tbl) |-> i], LAMBDA i : tbl[i] # NaT)
\* the dataset without the rows whose timestamp was not parsed
Compact == [n \in 1..Len(ParsedRows) |-> tbl[ParsedRows[n]]]

(***************************************************************************)
(* C17: iter_by_day puts every row with a parseable timestamp into exactly *)
(* one partition, the one keyed by the calendar date (YYYY-MM-DD) of its   *)
(* timestamp; partitions are pairwise disjoint and every partition key     *)
(* produced has at least one row.                                          *)
(***************************************************************************)
C17_Grouping ==
    /\ \A k \in IterCalls :
         /\ calls[k].rows # <<>>
         /\ \A a, b \in 1..Len(calls[k].rows) :
              a # b => calls[k].rows[a] # calls[k].rows[b]
         /\ \A j \in IterCalls : j # k => calls[j].key # calls[k].key
         /\ \A r \in 1..Len(tbl) :
              InRows(r, k) => tbl[r] # NaT /\ calls[k].key = DateStr(tbl[r].day)
    /\ \A j, k \in IterCalls :
         j # k => \A r \in 1..Len(tbl) : ~(InRows(r, j) /\ InRows(r, k))
    /\ IterDone =>
         /\ \A r \in 1..Len(tbl) :
              tbl[r] # NaT => Cardinality({k \in IterCalls : InRows(r, k)}) = 1
         /\ Len(seed) = Cardinality(IterCalls)
         /\ \A k \in IterCalls : seed[k][1] = calls[k].key

\* the rows of 2025-08-24 10:00 and 23:59 share a partition, the row of
\* 2025-08-25 00:01 is in another
C17_Witness ==
    /\ IterDone
    /\ tbl = <<[day |-> 24, hm |-> 1000], [day |-> 24, hm |-> 2359],
               [day |-> 25, hm |-> 1]>>
    /\ calls[1].key = "2025-08-24" /\ calls[1].rows = <<1, 2>>
    /\ calls[2].key = "2025-08-25" /\ calls[2].rows = <<3>>

(***************************************************************************)
(* C18: rows whose timestamp cannot be parsed are in no partition of       *)
(* iter_by_day and are never passed to the generation function; they raise *)
(* no error (a run without a cache file ends by an exception only if FUN   *)
(* raised it), and the partitions are those of the dataset without these   *)
(* rows, every other row keeping its rownum.                               *)
(***************************************************************************)
C18_UnparsableDropped ==
    /\ \A k \in 1..Len(calls) : \A r \in 1..Len(tbl) :
         InRows(r, k) => tbl[r] # NaT
    /\ (~hit /\ rpc = "raised") =>
         /\ calls # <<>>
         /\ calls[Len(calls)].out.exc = rret.exc /\ rret.exc # "none"
    /\ \A k \in IterCalls :
         /\ k <= Len(GroupDays(Compact))
         /\ calls[k].key = DateStr(GroupDays(Compact)[k])
         /\ calls[k].rows =
              [n \in 1..Len(GroupRows(Compact, GroupDays(Compact)[k])) |->
                 ParsedRows[GroupRows(Compact, GroupDays(Compact)[k])[n]]]
    /\ IterDone => Cardinality(IterCalls) = Len(GroupDays(Compact))

\* an unparsable row between two rows of one day
C18_Witness ==
    /\ IterDone /\ Len(tbl) = 3 /\ tbl[2] = NaT
    /\ Len(calls) >= 2 /\ calls[1].rows = <<1, 3>> /\ calls[2].phase = "retry"


(***************************************************************************)
(* C19: when the object handed to write_data cannot be serialized as JSON, *)
(* its string form is written at the path with the same base name and a    *)
(* .txt extension, no error reaches the caller, and load_or_create still   *)
(* returns the value FUN computed.                                         *)
(***************************************************************************)
C19_DegradedSuccess ==
    (/\ Miss /\ lc.out.exc = "none" /\ ~IsDataFrame(lc.out.val)
     /\ ~JsonOk(Serialize(lc.out.val)))
    => /\ lc.exc = "none"
       /\ lc.val = lc.out.val
       /\ lc.funCalls = 1
       /\ fs[Path(lc.path.base, ".txt")] = TextFile(Serialize(lc.out.val))

\* a result json cannot encode, computed for a .json path: the text is at
\* the .txt path and the .json path holds no JSON
C19_Witness ==
    /\ Miss /\ lc.path.ext = ".json" /\ lc.out = Ret(Obj(2))
    /\ lc.val = Obj(2) /\ lc.exc = "none"
    /\ fs[Path("theme", ".txt")] = TextFile(Obj(2))
    /\ fs[lc.path] = Partial


(***************************************************************************)
(* C20: every inference call, whichever stage or partition issues it and   *)
(* whether it is a first attempt or a retry after a transient failure,     *)
(* passes the one rate-limit gate of the process and is counted against    *)
(* the same quota: the calls issued in a period of the gate, by all        *)
(* callers together, are each counted by the gate and never exceed 150.    *)
(***************************************************************************)
C20_SharedGate ==
    /\ gstart = last_reset
    /\ gcalls <= num_calls
    /\ gcalls <= CALLS

\* the quota of one period used up by both stages, retries among the calls
C20_Witness ==
    /\ gcalls = CALLS /\ gstages = Stages /\ gretried
    /\ origin.attempt = 2 /\ num_calls = CALLS + 1


\* v clamped to [WaitMin, WaitMax]
Clamp(v) == Max(WaitMin, Min(v, WaitMax))

(***************************************************************************)
(* C21, as stated: the wait before the retry after the i-th transient      *)
(* failure is 1s x 2^i clamped to [4s, 60s].  Refuted: wait_exponential    *)
(* raises 2 to attempt_number - 1, so the wait after the third failure is  *)
(* 4s, not 8s.                                                             *)
(***************************************************************************)
C21_BackoffSchedule ==
    \A i \in 1..Len(waits) : waits[i] = Clamp(WaitMultiplier * 2 ^ i)

(***************************************************************************)
(* C21, amended: the wait before the retry after the i-th transient        *)
(* failure (i = 1, 2, ...) is 1s x 2^(i-1) clamped to [4s, 60s]: 4, 4, 4,  *)
(* 8, 16, 32, 60, 60, ...; every wait is at least 4s and at most 60s,      *)
(* waits are non-decreasing in i, and once 60s is reached every later wait *)
(* is 60s.                                                                 *)
(***************************************************************************)
C21_BackoffFromAttempt ==
    /\ Len(waits) = Cardinality({i \in 1..Len(infers) : Retryable(infers[i])})
    /\ \A i \in 1..Len(waits) :
         /\ waits[i] = Clamp(WaitMultiplier * 2 ^ (i - 1))
         /\ WaitMin <= waits[i] /\ waits[i] <= WaitMax
         /\ \A j \in 1..i :
              /\ waits[j] <= waits[i]
              /\ waits[j] = WaitMax => waits[i] = WaitMax

\* eight failures in a row: the wait stays at 4s for three failures and is
\* 60s from the seventh
C21_Witness ==
    /\ Len(waits) = 8 /\ waits[3] = 4 /\ waits[4] = 8 /\ waits[6] = 32
    /\ waits[7] = 60 /\ waits[8] = 60


\* the first outcome of os that is an error generate does not retry, if any
FatalOf(os) ==
    {os[i] : i \in {j \in 1..Len(os) : os[j] \in ErrorKinds /\ ~Retryable(os[j])}}

\* C22: the stages run in the order of the script, each at most once; an
\* exception leaves only the last stage that ran and the run is then
\* aborted, with every artifact of the later stages as the run found it; an
\* exception is the fatal error of an inference call, the failure to read an
\* existing artifact or the TypeError of writing a table, never a retryable
\* error and never the fallback of write_json.
C22_FatalErrorHaltsRun ==
    /\ \A i \in 1..Len(plog) : plog[i].stage = i
    /\ prun = "aborted" <=> (Len(plog) > 0 /\ plog[Len(plog)].exc # "none")
    /\ \A i \in 1..Len(plog) :
         plog[i].exc # "none" =>
           /\ i = Len(plog) /\ pstage = i /\ prun = "aborted"
           /\ \A k \in (i + 1)..Len(StageSeq), e \in Exts :
                fs[Path(StageSeq[k].base, e)] = fs0[Path(StageSeq[k].base, e)]
           /\ ~Retryable(plog[i].exc)
           /\ \/ plog[i].exc \in FatalOf(plog[i].infers)
              \/ plog[i].hit /\ plog[i].infers = <<>>
                 /\ plog[i].exc = "JSONDecodeError"
              \/ ~plog[i].hit /\ StageSeq[i].ext = ".csv"
                 /\ plog[i].exc = "TypeError"
    /\ \A i \in 1..Len(plog) :
         (FatalOf(plog[i].infers) = {} /\ ~plog[i].hit
          /\ StageSeq[i].ext # ".csv") => plog[i].exc = "none"
    /\ prun = "finished" <=> Len(plog) = Len(StageSeq) /\ pstage = Len(StageSeq) + 1
                             /\ plog[Len(plog)].exc = "none"

\* a run that retried transient errors and took the fallback in its third
\* stage, went on, and was ended by a fatal error in its fourth
C22_Witness ==
    /\ prun = "aborted" /\ Len(plog) = 4
    /\ plog[3].fallback /\ plog[3].exc = "none"
    /\ \E j \in 1..Len(plog[3].infers) : plog[3].infers[j] \in ErrorKinds
    /\ plog[4].exc = "ValueError"
    /\ fs[Path("daily_topic", ".json")] = fs0[Path("daily_topic", ".json")]

\* the partition keys the dataset gives: the dates of its parsed timestamps
DerivedKeys == {DateStr(tbl[r].day) : r \in {i \in 1..Len(tbl) : tbl[i] # NaT}}
\* the day a partition key names
KeyDay(key) == CHOOSE d \in {DaySeq[i] : i \in 1..Len(DaySeq)} : DateStr(d) = key

(***************************************************************************)
(* C23: on a cache miss iter_by_day calls the generation function once per *)
(* partition, by ascending partition key, and the mapping it returns has   *)
(* the derived partition keys as its keys; on a hit it is not called.      *)
(***************************************************************************)
C23_InitialConstruction ==
    /\ hit => IterCalls = {}
    /\ \A k \in IterCalls : calls[k].key \in DerivedKeys
    /\ \A j, k \in IterCalls :
         j < k => KeyDay(calls[j].key) < KeyDay(calls[k].key)
    /\ \A j \in 1..Len(calls), k \in IterCalls :
         calls[j].phase = "retry" => k < j
    /\ IterDone =>
         /\ {calls[k].key : k \in IterCalls} = DerivedKeys
         /\ Cardinality(IterCalls) = Cardinality(DerivedKeys)
         /\ Len(seed) = Cardinality(DerivedKeys)
         /\ {seed[i][1] : i \in 1..Len(seed)} = DerivedKeys
         /\ \A i \in 1..Len(seed) : seed[i][2] = calls[i].out.val

\* a dataset whose rows are not in date order: the 24th is still first
C23_Witness ==
    /\ IterDone /\ Len(tbl) = 3
    /\ tbl[1].day = 25 /\ tbl[2].day = 24 /\ tbl[3].day = 25
    /\ Len(seed) = 2 /\ seed[1][1] = "2025-08-24" /\ seed[2][1] = "2025-08-25"
    /\ Cardinality(IterCalls) = 2 /\ calls[2].rows = <<1, 3>>

\* the calls of reanalyze in pass m (frame n = m) that gave key a value
AnsweredIn(m, key) == {j \in Answered : rlog[j].n = m /\ rlog[j].key = key}
\* what the last pass gave every partition (the mapping of the call when no
\* pass is made)
LastPass ==
    [i \in 1..Len(theme0) |->
        IF n0 >= 1
        THEN <<theme0[i][1],
               rlog[CHOOSE j \in Answered :
                       rlog[j].n = 1 /\ rlog[j].key = theme0[i][1]].out.val>>
        ELSE theme0[i]]

(***************************************************************************)
(* C24: the file at the refined-theme path is the one the run found until  *)
(* refine_theme has returned; the file written then holds the serialized   *)
(* output of the last of exactly n passes, every partition answered once   *)
(* with a value in each pass, and no null; nothing else is written.        *)
(***************************************************************************)
C24_PersistedAfterAllPasses ==
    /\ \A p \in PipelinePaths : p # RefinedPath => fs[p] = fs0[p]
    /\ rfpc \in {"call", "pass", "raised", "loaded"}
         => fs[RefinedPath] = fs0[RefinedPath]
    /\ rfpc = "done" =>
         /\ fs0[RefinedPath] = Absent
         /\ fs[RefinedPath] = JsonFile(Serialize(rfret.val))
         /\ rfret.val = Map(LastPass)
         /\ \A i \in 1..Len(LastPass) : LastPass[i][2] # Null
         /\ \A m \in 1..n0, i \in 1..Len(theme0) :
              Cardinality(AnsweredIn(m, theme0[i][1])) = 1
         /\ \A j \in Answered : rlog[j].n \in 1..n0
         /\ Len(frames) = (IF n0 >= 1 THEN n0 ELSE 0) + 1

\* two passes over two partitions, with a null answer on the way, and the
\* file written at the end
C24_Witness ==
    /\ rfpc = "done" /\ n0 = 2 /\ Len(theme0) = 2 /\ NullAnswers # {}
    /\ Cardinality(Answered) = 4
    /\ fs[RefinedPath].fmt = "json" /\ fs0[RefinedPath] = Absent

(***************************************************************************)
(* C25: load_or_create on an existing path whose extension is neither      *)
(* .csv nor .json raises ValueError, does not invoke FUN and leaves every  *)
(* file as it was, also when the file is one an earlier miss wrote there.  *)
(***************************************************************************)
C25_UnsupportedExtension ==
    (/\ lc.called /\ Exists(lc.before, lc.path)
     /\ lc.path.ext \notin {".csv", ".json"})
    => /\ lc.exc = "ValueError" /\ lc.val = Null
       /\ lc.funCalls = 0
       /\ lc.writes = <<>>
       /\ fs = lc.before

\* the .txt path holds the JSON an earlier miss at that very path wrote
\* (the state starts with text there or nothing), and the call raised
C25_Witness ==
    /\ lc.called /\ lc.path = Path("theme", ".txt")
    /\ lc.before[lc.path] = JsonFile(Str(2))
    /\ lc.exc = "ValueError" /\ lc.funCalls = 0
    /\ fs[lc.path] = JsonFile(Str(2))

(***************************************************************************)
(* C26, as stated: in every reachable state, load_or_create on a .json or  *)
(* .csv path where a file exists loads the file without error, without     *)
(* invoking FUN, and (for JSON) returns the value persisted there.         *)
(* Refuted: the fallback of write_json leaves at the path the file that    *)
(* the failed json.dump had opened for writing, and it is not JSON.        *)
(***************************************************************************)
C26_ArtifactsReadable ==
    \A p \in Paths :
        (p.ext \in {".json", ".csv"} /\ Exists(fs, p)) =>
            LET r == LoadOrCreate(fs, Raise("FatalError"), p, "error") IN
            /\ r.exc = "none"
            /\ r.funCalls = 0
            /\ p.ext = ".json" => r.val = fs[p].val

\* FUN raised inside load_or_create: iter_by_day had been entered and its
\* last call of FUN ended the run
RaisedInCreate ==
    /\ rpc = "raised" /\ ~hit /\ calls # <<>>
    /\ calls[Len(calls)].phase = "iter"

(***************************************************************************)
(* C27: when FUN raises inside load_or_create on a miss, here iter_by_day  *)
(* at one of its partitions, no file exists afterwards at the path or at   *)
(* its .txt sibling and nothing was written, whatever the partitions       *)
(* before gave: a later call finds no file and computes again.             *)
(***************************************************************************)
C27_NothingSavedOnFailure ==
    RaisedInCreate =>
        /\ rret.exc = calls[Len(calls)].out.exc /\ rret.exc # "none"
        /\ ~Exists(fs, CachePath)
        /\ ~Exists(fs, TxtPath(CachePath))
        /\ nwrites = 0
        /\ \A k \in 1..(Len(calls) - 1) :
             calls[k].phase = "iter" /\ calls[k].out.exc = "none"

\* the first partition was answered, the second raised
C27_Witness ==
    /\ RaisedInCreate /\ Len(calls) = 2
    /\ calls[1].out = Ret(Str(1)) /\ calls[2].out = Raise("FatalError")
    /\ fs[CachePath] = Absent

\* retry_by_day found at its path a mapping without a null
FoundPopulated ==
    /\ hit /\ rpc \notin {"start", "raised"}
    /\ seed # <<>> /\ ~AnyNull(seed)

(***************************************************************************)
(* C28: retry_by_day started on a path whose artifact has a value for      *)
(* every partition calls the generation function not once, returns the     *)
(* stored mapping, and the content at the path afterwards is the content   *)
(* it found (the file is written again, with the same mapping).            *)
(***************************************************************************)
C28_IdempotentRerun ==
    FoundPopulated =>
        /\ rpc = "done"
        /\ calls = <<>> /\ passes = 0
        /\ rret = [done |-> TRUE, exc |-> "none", val |-> Map(seed)]
        /\ fs[CachePath] = JsonFile(Map(seed))
        /\ nwrites = 1
        /\ \A p \in Paths : p # CachePath => fs[p] = Absent

\* the stored mapping of two partitions, on a dataset that has rows
C28_Witness ==
    /\ FoundPopulated /\ rpc = "done" /\ Len(tbl) = 3
    /\ seed = << <<"2025-08-24", Dict(1)>>, <<"2025-08-25", Str(1)>> >>
    /\ rret.val = Map(seed)

\* the call before the last was a miss at a .json path that returned a
\* result json can encode and that is no table, and the last call is on the
\* same path
HitAfterMiss ==
    /\ lc.called /\ lc.prev.called
    /\ lc.path = lc.prev.path /\ lc.path.ext = ".json"
    /\ ~Exists(lc.prev.before, lc.path)
    /\ lc.prev.exc = "none" /\ ~IsDataFrame(lc.prev.val)
    /\ JsonOk(Serialize(lc.prev.val))

Transient == {"ConnectError", "ReadTimeout", "OSError", "ServerError", "ClientError"}
LastInfer == infers[Len(infers)]

(***************************************************************************)
(* C4: over any sequence of generate calls, retry attempts included, every *)
(* window of 60 seconds holds at most 150 inference calls.  Violated: the  *)
(* gate counts per period anchored at its last reset, so the calls of the  *)
(* last second of one period and those of the first second of the next     *)
(* fall into one window.                                                   *)
(***************************************************************************)
C4_RateLimit == winCalls <= CALLS

(***************************************************************************)
(* C5: if the inference call fails with a transient error (connect error,  *)
(* read timeout, OSError, API error) k times and then succeeds, generate   *)
(* returns the result of the successful call, has issued exactly k + 1     *)
(* inference calls, and no transient error reaches the caller.             *)
(***************************************************************************)
C5_RetryConverges ==
    /\ gpc = "returned" =>
         /\ Len(infers) >= 1 /\ LastInfer \notin ErrorKinds
         /\ \A i \in 1..(Len(infers) - 1) : infers[i] \in Transient
         /\ Len(infers) = Cardinality({i \in 1..Len(infers) : infers[i] \in Transient}) + 1
         /\ Len(waits) = Len(infers) - 1
         /\ gret.exc = "none"
         /\ gret.val = IF LastInfer = "conforming" THEN Str(1) ELSE Null
    /\ gpc = "raised" => gret.exc \notin Transient
    /\ (Len(infers) >= 1 /\ LastInfer \notin ErrorKinds) => gpc = "returned"

\* two transient failures, among them an API error, then the answer
C5_Witness ==
    /\ gpc = "returned" /\ Len(infers) = 3 /\ infers[2] = "ServerError"
    /\ infers[1] = "ConnectError" /\ gret.val = Str(1)

(***************************************************************************)
(* C6, as stated: when the inference call fails with a fatal error (a      *)
(* malformed request, or any other non-retryable failure) generate         *)
(* propagates the error after exactly that one call, with no backoff wait. *)
(* Refuted: the service's answer to a malformed request is a ClientError,  *)
(* an APIError, which generate retries with backoff.                       *)
(***************************************************************************)
C6_FatalNotRetried ==
    \A i \in 1..Len(infers) :
        infers[i] \in {"ClientError", "ValueError"} =>
            /\ i = Len(infers) /\ gpc = "raised" /\ gret.exc = infers[i]
            /\ Len(waits) = i - 1

(***************************************************************************)
(* C6, amended: when the inference call fails with an exception that is    *)
(* none of ConnectError, ReadTimeout, OSError, APIError, generate          *)
(* propagates it to its caller after that one call, with no further        *)
(* inference call and no backoff wait; a malformed request the service     *)
(* rejects arrives as an APIError and is retried with backoff like any     *)
(* transient failure.                                                      *)
(***************************************************************************)
C6_NonRetryablePropagates ==
    /\ \A i \in 1..Len(infers) :
         /\ infers[i] = "ValueError" =>
              /\ i = Len(infers) /\ gpc = "raised" /\ gret.exc = "ValueError"
              /\ Len(waits) = i - 1
         /\ infers[i] = "ClientError" =>
              /\ gpc # "raised" \/ i < Len(infers)
              /\ Len(waits) >= i /\ waits[i] >= WaitMin
    /\ gpc = "raised" =>
         /\ Len(infers) >= 1 /\ gret.exc = LastInfer
         /\ gret.exc \notin {"ConnectError", "ReadTimeout", "OSError",
                             "ServerError", "ClientError"}

\* a non-retryable failure of the first call reaches the caller at once
C6_Witness ==
    gpc = "raised" /\ infers = <<"ValueError">> /\ waits = <<>> /\ attempt = 1

====
